---- MODULE Spec2Model ----
(***************************************************************************)
(* LintIQ frontend: the API client (lib/api.js), the authentication        *)
(* context (contexts/AuthContext.jsx) and the Dashboard and LandingPage    *)
(* handlers, as a state machine.                                           *)
(*                                                                         *)
(* Every asynchronous handler is cut at its awaits.  A request is in       *)
(* `calls` from the moment api.post/api.get has run the request            *)
(* interceptor until its answer arrives.  The arrival is one step: the     *)
(* answer passes the response interceptor and the awaiting handler's       *)
(* continuation runs to its end or to its next await (the promise jobs of  *)
(* one XHR callback run to completion before any other callback or UI      *)
(* event).  `event` keeps what the step did, with the storage as the       *)
(* interceptor left it (`mid`), before the continuation ran.               *)
(* The backend is not part of the repository: its answers are inputs.      *)
(***************************************************************************)
EXTENDS Integers, Sequences, FiniteSets, Bags, TLC

\* ---------------------------------------------------------------- bounds
MaxInFlight == 2

\* ---------------------------------------------------------------- values
\* null / undefined / an absent localStorage key
Null == <<>>
\* a field the backend left out of a body (response.data.error undefined)
Undefined == "undefined"

Accounts == {"alice", "bob"}
\* a profile object: the account's name and its is_pro flag
Profiles == {<<a, pro>> : a \in Accounts, pro \in BOOLEAN}
TokenOf(a) == <<"jwt", a>>
Tokens == {TokenOf(a) : a \in Accounts}
AccountOfToken(t) == t[2]
AccountOfProfile(p) == p[1]

\* the FileLists a file input or a drop may deliver
FileSets == {<<>>, <<"a.py">>, <<"a.py", "b.js">>}
DemoFiles == <<"demo">>
\* the credit packages the backend offers
Packages == <<"starter", "pro">>
AnalysisData(fs) == <<"analysis", fs>>

BackendErrors == {Undefined, "Backend error"}
ErrorStatuses == {401, 402, 500}

Truthy(v) == v # Null
TruthyStr(s) == s \notin {"", Undefined}

\* JSON.stringify / JSON.parse of a profile object
Stringify(p) == <<"{">> \o p \o <<"}">>
Parse(s) == SubSeq(s, 2, Len(s) - 1)

\* ---------------------------------------------------------------- responses
NoHeader == <<>>
Bearer(token) == <<"Bearer", token>>

\* what a settled request carries: a response (2xx body), an error with a
\* response (non-2xx status), or an error without one (network, timeout)
Res(kind, status, success, u, t, err, data) ==
    [kind |-> kind, status |-> status, success |-> success, user |-> u,
     token |-> t, error |-> err, data |-> data]
NoRes == Res("none", 0, FALSE, Null, Null, Undefined, Null)
NetworkError == Res("network", 0, FALSE, Null, Null, Undefined, Null)
HttpErrors == {Res("error", s, FALSE, Null, Null, e, Null) :
                  s \in ErrorStatuses, e \in BackendErrors}
Refusals == {Res("ok", 200, FALSE, Null, Null, e, Null) : e \in BackendErrors}
Failures == HttpErrors \cup {NetworkError}

Endpoint(op) ==
    CASE op = "initializeAuth"       -> "/auth/verify"
      [] op = "refreshUser"          -> "/auth/verify"
      [] op = "login"                -> "/auth/login"
      [] op = "register"             -> "/auth/register"
      [] op = "demoLogin"            -> "/auth/demo"
      [] op = "logout"               -> "/auth/logout"
      [] op = "handleAnalyze"        -> "/analysis/analyze"
      [] op = "handleDemoAnalysis"   -> "/analysis/demo"
      [] op = "handlePurchaseCredits" -> "/payments/simulate-purchase"
      [] OTHER                       -> "/payments/packages"

\* the bodies the backend may answer with success: true
SuccessBodies(call) ==
    CASE Endpoint(call.op) \in {"/auth/login", "/auth/register", "/auth/demo"} ->
           {Res("ok", 200, TRUE, p, TokenOf(AccountOfProfile(p)), Undefined, Null) :
               p \in Profiles}
      [] Endpoint(call.op) = "/auth/verify" ->
           IF call.auth = NoHeader THEN {}
           ELSE {Res("ok", 200, TRUE, p, Null, Undefined, Null) :
                    p \in {q \in Profiles :
                             AccountOfProfile(q) = AccountOfToken(call.auth[2])}}
      [] Endpoint(call.op) = "/analysis/analyze" ->
           {Res("ok", 200, TRUE, Null, Null, Undefined, AnalysisData(call.body))}
      [] Endpoint(call.op) = "/analysis/demo" ->
           {Res("ok", 200, TRUE, Null, Null, Undefined, AnalysisData(DemoFiles))}
      [] Endpoint(call.op) = "/payments/packages" ->
           {Res("ok", 200, TRUE, Null, Null, Undefined, Packages)}
      [] OTHER ->
           {Res("ok", 200, TRUE, Null, Null, Undefined, Null)}

Answers(call) == SuccessBodies(call) \cup Refusals \cup Failures

\* ---------------------------------------------------------------- state
VARIABLES
    ls_token,         \* localStorage 'lintiq_token'
    ls_user,          \* localStorage 'lintiq_user' (a JSON string)
    location,         \* window.location / the router's current path
    user,             \* AuthProvider: user
    loading,          \* AuthProvider: loading
    isAuthenticated,  \* AuthProvider: isAuthenticated
    mounted,          \* AuthProvider's mount effect has run
    files,            \* Dashboard: files
    analyzing,        \* Dashboard: analyzing
    analysisResult,   \* Dashboard: analysisResult
    error,            \* Dashboard: error
    creditPackages,   \* Dashboard: creditPackages
    loadingPackages,  \* Dashboard: loadingPackages
    dashboardMounted, \* Dashboard's mount effect has run
    calls,            \* the bag of requests sent and not yet answered
    event             \* the step just taken

storage == <<ls_token, ls_user>>
session == <<user, loading, isAuthenticated, mounted>>
packages == <<creditPackages, loadingPackages, dashboardMounted>>
dashboard == <<files, analyzing, analysisResult, error, packages>>
vars == <<ls_token, ls_user, location, user, loading, isAuthenticated, mounted,
          files, analyzing, analysisResult, error, creditPackages,
          loadingPackages, dashboardMounted, calls, event>>

\* a request: the handler awaiting it, who called that handler, the
\* Authorization header it left with, and its payload
Call(op, caller, auth, body) ==
    [op |-> op, caller |-> caller, auth |-> auth, body |-> body]
NoCall == Call("none", "none", NoHeader, Null)

InFlight == BagToSet(calls)
CanSend == BagCardinality(calls) < MaxInFlight

\* what a handler's promise settles to
Out(settled, success, u, err) ==
    [settled |-> settled, success |-> success, user |-> u, error |-> err]
NoOut == Out("none", FALSE, Null, Undefined)
Resolved == Out("resolved", FALSE, Null, Undefined)
Rejected == Out("rejected", FALSE, Null, Undefined)

\* the step just taken: `step` is "start" (a handler ran up to its first
\* await), "await" (an answer arrived and the continuation ran up to a
\* further await) or "return" (a handler ran to its end); `res` the answer
\* that arrived, `got` what the response interceptor handed to
\* the awaiting handler, `mid` <<lintiq_token, lintiq_user, location>> as the
\* interceptor left them, `out` what the handler `op` settled to, `sent` the
\* request the step sent, `alert` whether the step showed window.alert,
\* `arg` the argument the handler was called with, `after` the session
\* operation whose return was the step before (kept by the returns of
\* initializeAuth, login / register / demoLogin, logout and refreshUser: the
\* two were in flight together)
Event(step, op, res, got, mid, out, sent, alert) ==
    [step |-> step, op |-> op, res |-> res, got |-> got,
     mid |-> mid, out |-> out, sent |-> sent, alert |-> alert, arg |-> Null,
     after |-> "none"]
NoMid == <<Null, Null, "">>
\* a step in which no answer arrived
Local(step, op, out, sent) ==
    Event(step, op, NoRes, NoRes, NoMid, out, sent, FALSE)
Called(op, arg) ==
    [Local("return", op, Resolved, NoCall) EXCEPT !.arg = arg]

\* ---------------------------------------------------------------- lib/api.js
\* mutation: the interceptor attaches nothing
RequestInterceptorNever(token) == NoHeader

\* request interceptor: the Authorization header it leaves on the config
RequestInterceptor(token) ==
    IF Truthy(token) THEN Bearer(token) ELSE NoHeader

\* mutation: a 401 removes the token and leaves the cached profile
ResponseInterceptorKeepsUser(res, token, usr, loc) ==
    IF res.kind = "error" /\ res.status = 401
    THEN <<Null, usr, "/login">>
    ELSE <<token, usr, loc>>

\* mutation: every error status is taken for an authentication failure
ResponseInterceptorAnyError(res, token, usr, loc) ==
    IF res.kind = "error"
    THEN <<Null, Null, "/login">>
    ELSE <<token, usr, loc>>

\* mutation: a 401 redirects and leaves the clearing to the caller
ResponseInterceptorRedirectOnly(res, token, usr, loc) ==
    IF res.kind = "error" /\ res.status = 401
    THEN <<token, usr, "/login">>
    ELSE <<token, usr, loc>>

\* mutation: a 401 is ignored while a user is signed in
ResponseInterceptorUnlessSignedIn(res, token, usr, loc) ==
    IF res.kind = "error" /\ res.status = 401 /\ ~isAuthenticated
    THEN <<Null, Null, "/login">>
    ELSE <<token, usr, loc>>

\* response interceptor: <<lintiq_token, lintiq_user, location.href>> after it
ResponseInterceptorEffect(res, token, usr, loc) ==
    IF res.kind = "error" /\ res.status = 401
    THEN <<Null, Null, "/login">>
    ELSE <<token, usr, loc>>

\* response interceptor: what the caller's await receives.  The fulfilled
\* branch returns the response, the rejected branch Promise.reject(error).
ResponseInterceptorResult(res) == res

IsRejection(res) == res.kind \in {"error", "network"}
\* mutation: any 2xx body is taken for a success
IsSuccessAnyBody(res) == res.kind = "ok"

IsSuccess(res) == res.kind = "ok" /\ res.success

\* setAuthToken / setUser: the value the key holds afterwards
SetAuthToken(token) == IF Truthy(token) THEN token ELSE Null
SetUser(u) == IF Truthy(u) THEN Stringify(u) ELSE Null
GetUser(stored) == IF Truthy(stored) THEN Parse(stored) ELSE Null
\* clearAuth: <<lintiq_token, lintiq_user>> afterwards
ClearAuth == <<Null, Null>>

\* api.post / api.get: the request as it leaves the request interceptor
Request(op, caller, body) == Call(op, caller, RequestInterceptor(ls_token), body)

\* the answer to request c passes the response interceptor
Mid(r) == ResponseInterceptorEffect(r, ls_token, ls_user, location)
Got(r) == ResponseInterceptorResult(r)
Arrived(c, op) ==
    /\ c \in InFlight
    /\ c.op = op

\* ---------------------------------------------------------------- AuthContext
\* the operation among `ops` that ran to its end in the step before
\* (a login, register or demoLogin counts when it stored a session)
JustReturned(ops) ==
    IF /\ event.step = "return" /\ event.op \in ops /\ event.res # NoRes
       /\ (event.op = "logout" \/ event.out.success)
    THEN event.op ELSE "none"

FallbackMessage(op) ==
    CASE op = "login"    -> "Login failed"
      [] op = "register" -> "Registration failed"
      [] OTHER           -> "Demo login failed"

\* error.response?.data?.error || fallback
ErrorMessage(res, fallback) ==
    IF res.kind = "error" /\ TruthyStr(res.error) THEN res.error ELSE fallback

\* mutation: initializeAuth looks for a stored token instead of a cached profile
InitializeAuthChecksToken ==
    /\ ~mounted
    /\ mounted' = TRUE
    /\ IF Truthy(ls_token)
       THEN /\ calls' = calls (+) SetToBag({Request("initializeAuth", "AuthProvider", Null)})
            /\ event' = Local("start", "initializeAuth", NoOut,
                              Request("initializeAuth", "AuthProvider", Null))
            /\ UNCHANGED loading
       ELSE /\ loading' = FALSE
            /\ event' = Local("return", "initializeAuth", Resolved, NoCall)
            /\ UNCHANGED calls
    /\ UNCHANGED <<storage, location, user, isAuthenticated, dashboard>>

\* the useEffect of AuthProvider: initializeAuth up to its await, or to its
\* end when no profile is cached
InitializeAuth ==
    /\ ~mounted
    /\ mounted' = TRUE
    /\ IF Truthy(GetUser(ls_user))
       THEN /\ calls' = calls (+) SetToBag({Request("initializeAuth", "AuthProvider", Null)})
            /\ event' = Local("start", "initializeAuth", NoOut,
                              Request("initializeAuth", "AuthProvider", Null))
            /\ UNCHANGED loading
       ELSE /\ loading' = FALSE
            /\ event' = Local("return", "initializeAuth", Resolved, NoCall)
            /\ UNCHANGED calls
    /\ UNCHANGED <<storage, location, user, isAuthenticated, dashboard>>

\* mutation: the catch block logs the error and clears nothing
InitializeAuthEffectKeepsOnRejection(got, token, usr, current, authed) ==
    IF got.kind = "ok"
    THEN IF got.success
         THEN <<token, usr, got.user, TRUE>>
         ELSE <<Null, Null, current, authed>>
    ELSE <<token, usr, current, authed>>

\* initializeAuth after `await auth.verify()`:
\* <<lintiq_token, lintiq_user, user, isAuthenticated>> afterwards
InitializeAuthEffect(got, token, usr, current, authed) ==
    IF IsSuccess(got)
    THEN <<token, usr, got.user, TRUE>>
    ELSE <<ClearAuth[1], ClearAuth[2], current, authed>>

InitializeAuthReturn(c) ==
    /\ Arrived(c, "initializeAuth")
    /\ \E r \in Answers(c) :
         LET after == InitializeAuthEffect(Got(r), Mid(r)[1], Mid(r)[2], user,
                                           isAuthenticated) IN
           /\ ls_token' = after[1]
           /\ ls_user' = after[2]
           /\ user' = after[3]
           /\ isAuthenticated' = after[4]
           /\ location' = Mid(r)[3]
           /\ event' = [Event("return", "initializeAuth", r, Got(r), Mid(r),
                              Resolved, NoCall, FALSE)
                         EXCEPT !.after = JustReturned({"login", "register", "demoLogin"})]
    /\ loading' = FALSE
    /\ calls' = calls (-) SetToBag({c})
    /\ UNCHANGED <<mounted, dashboard>>

\* login / register / demoLogin up to the await
AuthStart(op, caller) ==
    /\ mounted
    /\ CanSend
    /\ loading' = TRUE
    /\ calls' = calls (+) SetToBag({Request(op, caller, Null)})
    /\ event' = Local("start", op, NoOut, Request(op, caller, Null))
    /\ UNCHANGED <<storage, location, user, isAuthenticated, mounted, dashboard>>

Login == AuthStart("login", "LoginPage")
Register == AuthStart("register", "RegisterPage")
\* LandingPage.handleDemoLogin calls demoLogin
DemoLogin == AuthStart("demoLogin", "handleDemoLogin")

\* mutation: the catch block rethrows
AuthOutcomeRethrows(op, got) ==
    IF got.kind = "ok"
    THEN IF got.success
         THEN [settled |-> "resolved", success |-> TRUE, user |-> got.user,
               error |-> Undefined]
         ELSE [settled |-> "resolved", success |-> FALSE, user |-> Null,
               error |-> got.error]
    ELSE [settled |-> "rejected", success |-> FALSE, user |-> Null,
          error |-> Undefined]

\* the object login / register / demoLogin resolve to
AuthOutcome(op, got) ==
    IF got.kind = "ok"
    THEN IF got.success
         THEN Out("resolved", TRUE, got.user, Undefined)
         ELSE Out("resolved", FALSE, Null, got.error)
    ELSE Out("resolved", FALSE, Null, ErrorMessage(got, FallbackMessage(op)))

\* mutation: the token is stored, the profile is not
AuthEffectTokenOnly(got, token, usr, current, authed) ==
    IF got.kind = "ok" /\ got.success
    THEN <<got.token, usr, got.user, TRUE>>
    ELSE <<token, usr, current, authed>>

\* mutation: a failed login clears the stored session
AuthEffectClearsOnFailure(got, token, usr, current, authed) ==
    IF got.kind = "ok" /\ got.success
    THEN <<SetAuthToken(got.token), SetUser(got.user), got.user, TRUE>>
    ELSE <<Null, Null, current, authed>>

\* login / register / demoLogin after the await:
\* <<lintiq_token, lintiq_user, user, isAuthenticated>> afterwards
AuthEffect(got, token, usr, current, authed) ==
    IF IsSuccess(got)
    THEN <<SetAuthToken(got.token), SetUser(got.user), got.user, TRUE>>
    ELSE <<token, usr, current, authed>>

\* login / register / demoLogin after the await, and for demoLogin the rest
\* of LandingPage.handleDemoLogin
AuthReturn(c) ==
    /\ c \in InFlight
    /\ c.op \in {"login", "register", "demoLogin"}
    /\ \E r \in Answers(c) :
         LET after == AuthEffect(Got(r), Mid(r)[1], Mid(r)[2], user, isAuthenticated)
             out == AuthOutcome(c.op, Got(r)) IN
           /\ ls_token' = after[1]
           /\ ls_user' = after[2]
           /\ user' = after[3]
           /\ isAuthenticated' = after[4]
           /\ location' = IF c.caller = "handleDemoLogin" /\ out.success
                          THEN "/dashboard" ELSE Mid(r)[3]
           /\ event' = [Event("return", c.op, r, Got(r), Mid(r), out, NoCall, FALSE)
                         EXCEPT !.after = JustReturned({"logout"})]
    /\ loading' = FALSE
    /\ calls' = calls (-) SetToBag({c})
    /\ UNCHANGED <<mounted, dashboard>>

\* Dashboard.handleLogout calls logout: up to `await auth.logout()`
Logout ==
    /\ mounted
    /\ CanSend
    /\ calls' = calls (+) SetToBag({Request("logout", "handleLogout", Null)})
    /\ event' = Local("start", "logout", NoOut, Request("logout", "handleLogout", Null))
    /\ UNCHANGED <<storage, location, session, dashboard>>

\* what logout's promise settles to
LogoutOutcome(got) == Resolved

\* mutation: the local clear sits in the try block, after the await
LogoutEffectOnSuccess(got, token, usr, current, authed) ==
    IF got.kind = "ok"
    THEN <<Null, Null, Null, FALSE>>
    ELSE <<token, usr, current, authed>>

\* mutation: the finally block resets the React state and forgets clearAuth()
LogoutEffectStateOnly(got, token, usr, current, authed) ==
    <<token, usr, Null, FALSE>>

\* logout after the await (catch, finally):
\* <<lintiq_token, lintiq_user, user, isAuthenticated>> afterwards
LogoutEffect(got, token, usr, current, authed) ==
    <<ClearAuth[1], ClearAuth[2], Null, FALSE>>

\* logout after the await, then handleLogout's navigate('/')
LogoutReturn(c) ==
    /\ Arrived(c, "logout")
    /\ \E r \in Answers(c) :
         LET after == LogoutEffect(Got(r), Mid(r)[1], Mid(r)[2], user, isAuthenticated)
             out == LogoutOutcome(Got(r)) IN
           /\ ls_token' = after[1]
           /\ ls_user' = after[2]
           /\ user' = after[3]
           /\ isAuthenticated' = after[4]
           /\ location' = IF out.settled = "resolved" THEN "/" ELSE Mid(r)[3]
           /\ event' = [Event("return", "logout", r, Got(r), Mid(r), out, NoCall, FALSE)
                         EXCEPT !.after = JustReturned({"login", "register", "demoLogin"})]
    /\ calls' = calls (-) SetToBag({c})
    /\ UNCHANGED <<loading, mounted, dashboard>>

UpdateUser(updatedUser) ==
    /\ mounted
    /\ ls_user' = SetUser(updatedUser)
    /\ user' = updatedUser
    /\ event' = Called("updateUser", updatedUser)
    /\ UNCHANGED <<ls_token, location, loading, isAuthenticated, mounted,
                   dashboard, calls>>

\* what refreshUser's promise settles to
RefreshOutcome(got, current) ==
    IF IsSuccess(got)
    THEN Out("resolved", TRUE, got.user, Undefined)
    ELSE Out("resolved", FALSE, current, Undefined)

\* mutation: the refreshed profile is kept in memory and not persisted
RefreshEffectStateOnly(got, usr, current) ==
    IF got.kind = "ok" /\ got.success
    THEN <<usr, got.user>>
    ELSE <<usr, current>>

\* refreshUser after the await: <<lintiq_user, user>> afterwards
RefreshEffect(got, usr, current) ==
    IF IsSuccess(got)
    THEN <<SetUser(got.user), got.user>>
    ELSE <<usr, current>>

\* ---------------------------------------------------------------- Dashboard
SelectFilesMessage == "Please select files to analyze"
InsufficientCreditsMessage ==
    "Insufficient credits. Please purchase more credits to continue."
AnalysisFailedMessage == "Analysis failed. Please try again."
DemoFailedMessage == "Demo analysis failed. Please try again."
PurchaseFailedMessage == "Purchase failed. Please try again."

\* mutation: Try Demo is disabled like Analyze
DemoDisabledWithoutFiles == analyzing \/ Len(files) = 0

\* mutation: Try Demo is never disabled
DemoDisabledNever == FALSE

\* the Analyze and Try Demo buttons' disabled attributes
DemoDisabled == analyzing
AnalyzeDisabled == analyzing \/ Len(files) = 0

\* mutation: the displayed result survives a new selection
FileSelectKeepsResult(selectedFiles) == <<selectedFiles, "", analysisResult>>

\* handleFileSelect / handleDrop: <<files, error, analysisResult>> afterwards
FileSelectEffect(selectedFiles) == <<selectedFiles, "", Null>>
DropEffect(droppedFiles) == <<droppedFiles, "", Null>>

HandleFileSelect(selectedFiles) ==
    /\ mounted
    /\ files' = FileSelectEffect(selectedFiles)[1]
    /\ error' = FileSelectEffect(selectedFiles)[2]
    /\ analysisResult' = FileSelectEffect(selectedFiles)[3]
    /\ event' = Called("handleFileSelect", selectedFiles)
    /\ UNCHANGED <<storage, location, session, analyzing, packages, calls>>

HandleDrop(droppedFiles) ==
    /\ mounted
    /\ files' = DropEffect(droppedFiles)[1]
    /\ error' = DropEffect(droppedFiles)[2]
    /\ analysisResult' = DropEffect(droppedFiles)[3]
    /\ event' = Called("handleDrop", droppedFiles)
    /\ UNCHANGED <<storage, location, session, analyzing, packages, calls>>

\* mutation: no validation
FilesChosenAlways(fs) == TRUE

\* handleAnalyze's validation: TRUE when the handler goes on to the request
FilesChosen(fs) == Len(fs) # 0

\* handleAnalyze up to its early return or to
\* `await analysis.analyzeFiles(formData)`
HandleAnalyzeBody ==
    /\ mounted
    /\ IF ~FilesChosen(files)
       THEN /\ error' = SelectFilesMessage
            /\ event' = Local("return", "handleAnalyze", Resolved, NoCall)
            /\ UNCHANGED <<analyzing, calls>>
       ELSE /\ CanSend
            /\ analyzing' = TRUE
            /\ error' = ""
            /\ calls' = calls (+) SetToBag({Request("handleAnalyze", "Dashboard", files)})
            /\ event' = Local("start", "handleAnalyze", NoOut,
                              Request("handleAnalyze", "Dashboard", files))
    /\ UNCHANGED <<storage, location, session, files, analysisResult, packages>>

\* a click on the Analyze button
HandleAnalyze ==
    /\ ~AnalyzeDisabled
    /\ HandleAnalyzeBody

\* handleAnalyze entered with nothing selected (the rendered button is
\* disabled then; the handler validates for itself)
HandleAnalyzeNoFiles ==
    /\ Len(files) = 0
    /\ HandleAnalyzeBody

\* mutation: the backend's message wins over the 402 branch
AnalyzeErrorMessageBackendFirst(got) ==
    IF got.kind = "error" /\ got.error \notin {"", Undefined} THEN got.error
    ELSE IF got.kind = "error" /\ got.status = 402
         THEN InsufficientCreditsMessage
         ELSE AnalysisFailedMessage

\* the message handleAnalyze's catch block shows
AnalyzeErrorMessage(got) ==
    IF got.kind = "error" /\ got.status = 402
    THEN InsufficientCreditsMessage
    ELSE ErrorMessage(got, AnalysisFailedMessage)

\* handleAnalyze after the await: to its end, or to `await refreshUser()`,
\* whose verify request leaves with the token the interceptor left
HandleAnalyzeReturn(c) ==
    /\ Arrived(c, "handleAnalyze")
    /\ \E r \in Answers(c) :
         LET got == Got(r)
             verify == Call("refreshUser", "handleAnalyze",
                            RequestInterceptor(Mid(r)[1]), Null) IN
           /\ ls_token' = Mid(r)[1]
           /\ ls_user' = Mid(r)[2]
           /\ location' = Mid(r)[3]
           /\ IF IsSuccess(got)
              THEN /\ analysisResult' = got.data
                   /\ calls' = (calls (-) SetToBag({c})) (+) SetToBag({verify})
                   /\ event' = Event("await", "handleAnalyze", r, got, Mid(r),
                                     NoOut, verify, FALSE)
                   /\ UNCHANGED <<error, analyzing>>
              ELSE /\ error' = IF got.kind = "ok" THEN got.error
                               ELSE AnalyzeErrorMessage(got)
                   /\ analyzing' = FALSE
                   /\ calls' = calls (-) SetToBag({c})
                   /\ event' = Event("return", "handleAnalyze", r, got, Mid(r),
                                     Resolved, NoCall, FALSE)
                   /\ UNCHANGED analysisResult
    /\ UNCHANGED <<session, files, packages>>

\* handleDemoAnalysis up to `await analysis.demoAnalysis()`
HandleDemoAnalysis ==
    /\ mounted
    /\ ~DemoDisabled
    /\ CanSend
    /\ analyzing' = TRUE
    /\ error' = ""
    /\ calls' = calls (+) SetToBag({Request("handleDemoAnalysis", "Dashboard", Null)})
    /\ event' = Local("start", "handleDemoAnalysis", NoOut,
                      Request("handleDemoAnalysis", "Dashboard", Null))
    /\ UNCHANGED <<storage, location, session, files, analysisResult, packages>>

\* handleDemoAnalysis after the await: <<analysisResult, error>> afterwards
DemoEffect(got, result, err) ==
    IF got.kind = "ok"
    THEN IF got.success THEN <<got.data, err>> ELSE <<result, got.error>>
    ELSE <<result, DemoFailedMessage>>

HandleDemoAnalysisReturn(c) ==
    /\ Arrived(c, "handleDemoAnalysis")
    /\ \E r \in Answers(c) :
           /\ ls_token' = Mid(r)[1]
           /\ ls_user' = Mid(r)[2]
           /\ location' = Mid(r)[3]
           /\ analysisResult' = DemoEffect(Got(r), analysisResult, error)[1]
           /\ error' = DemoEffect(Got(r), analysisResult, error)[2]
           /\ event' = Event("return", "handleDemoAnalysis", r, Got(r), Mid(r),
                             Resolved, NoCall, FALSE)
    /\ analyzing' = FALSE
    /\ calls' = calls (-) SetToBag({c})
    /\ UNCHANGED <<session, files, packages>>

\* handlePurchaseCredits up to `await payments.simulatePurchase(packageId)`
HandlePurchaseCredits ==
    /\ mounted
    /\ CanSend
    /\ calls' = calls (+) SetToBag({Request("handlePurchaseCredits", "Dashboard", Null)})
    /\ event' = Local("start", "handlePurchaseCredits", NoOut,
                      Request("handlePurchaseCredits", "Dashboard", Null))
    /\ UNCHANGED <<storage, location, session, dashboard>>

\* handlePurchaseCredits after the await: to its end, or to `await refreshUser()`
HandlePurchaseCreditsReturn(c) ==
    /\ Arrived(c, "handlePurchaseCredits")
    /\ \E r \in Answers(c) :
         LET got == Got(r)
             verify == Call("refreshUser", "handlePurchaseCredits",
                            RequestInterceptor(Mid(r)[1]), Null) IN
           /\ ls_token' = Mid(r)[1]
           /\ ls_user' = Mid(r)[2]
           /\ location' = Mid(r)[3]
           /\ IF IsSuccess(got)
              THEN /\ calls' = (calls (-) SetToBag({c})) (+) SetToBag({verify})
                   /\ event' = Event("await", "handlePurchaseCredits", r, got,
                                     Mid(r), NoOut, verify, FALSE)
                   /\ UNCHANGED error
              ELSE /\ error' = IF got.kind = "ok" THEN error ELSE PurchaseFailedMessage
                   /\ calls' = calls (-) SetToBag({c})
                   /\ event' = Event("return", "handlePurchaseCredits", r, got,
                                     Mid(r), Resolved, NoCall, FALSE)
    /\ UNCHANGED <<session, files, analyzing, analysisResult, packages>>

\* the useEffect of Dashboard: loadCreditPackages up to
\* `await payments.getPackages()`
LoadCreditPackages ==
    /\ mounted
    /\ ~dashboardMounted
    /\ CanSend
    /\ dashboardMounted' = TRUE
    /\ loadingPackages' = TRUE
    /\ calls' = calls (+) SetToBag({Request("loadCreditPackages", "Dashboard", Null)})
    /\ event' = Local("start", "loadCreditPackages", NoOut,
                      Request("loadCreditPackages", "Dashboard", Null))
    /\ UNCHANGED <<storage, location, session, files, analyzing, analysisResult,
                   error, creditPackages>>

\* mutation: a request that failed without a response is sent again
LoadCreditPackagesReturnRetries(c) ==
    /\ Arrived(c, "loadCreditPackages")
    /\ \E r \in Answers(c) :
           /\ ls_token' = Mid(r)[1]
           /\ ls_user' = Mid(r)[2]
           /\ location' = Mid(r)[3]
           /\ creditPackages' = IF r.kind = "ok" /\ r.success THEN r.data
                                 ELSE creditPackages
           /\ IF r.kind = "network"
              THEN /\ event' = Event("await", "loadCreditPackages", r, Got(r), Mid(r),
                                     NoOut, c, FALSE)
                   /\ UNCHANGED <<loadingPackages, calls>>
              ELSE /\ event' = Event("return", "loadCreditPackages", r, Got(r), Mid(r),
                                     Resolved, NoCall, FALSE)
                   /\ loadingPackages' = FALSE
                   /\ calls' = calls (-) SetToBag({c})
    /\ UNCHANGED <<session, files, analyzing, analysisResult, error,
                   dashboardMounted>>

\* loadCreditPackages after the await (try, catch, finally)
LoadCreditPackagesReturn(c) ==
    /\ Arrived(c, "loadCreditPackages")
    /\ \E r \in Answers(c) :
           /\ ls_token' = Mid(r)[1]
           /\ ls_user' = Mid(r)[2]
           /\ location' = Mid(r)[3]
           /\ creditPackages' = IF IsSuccess(Got(r)) THEN Got(r).data
                                 ELSE creditPackages
           /\ event' = Event("return", "loadCreditPackages", r, Got(r), Mid(r),
                             Resolved, NoCall, FALSE)
    /\ loadingPackages' = FALSE
    /\ calls' = calls (-) SetToBag({c})
    /\ UNCHANGED <<session, files, analyzing, analysisResult, error,
                   dashboardMounted>>

\* mutation: handleAnalyze without its finally block, so a refresh that fails
\* leaves analyzing set
RefreshUserReturnWithoutFinally(c) ==
    /\ Arrived(c, "refreshUser")
    /\ \E r \in Answers(c) :
           /\ ls_token' = Mid(r)[1]
           /\ ls_user' = RefreshEffect(Got(r), Mid(r)[2], user)[1]
           /\ user' = RefreshEffect(Got(r), Mid(r)[2], user)[2]
           /\ location' = Mid(r)[3]
           /\ event' = [Event("return", "refreshUser", r, Got(r), Mid(r),
                              RefreshOutcome(Got(r), user), NoCall,
                              c.caller = "handlePurchaseCredits")
                         EXCEPT !.after = JustReturned({"logout"})]
           /\ analyzing' = IF c.caller = "handleAnalyze" /\ r.kind = "ok" /\ r.success
                            THEN FALSE ELSE analyzing
    /\ calls' = calls (-) SetToBag({c})
    /\ UNCHANGED <<loading, isAuthenticated, mounted, files, analysisResult, error,
                   packages>>

\* refreshUser after `await auth.verify()`, then the rest of the handler
\* that awaited it: handleAnalyze's finally, handlePurchaseCredits' alert
RefreshUserReturn(c) ==
    /\ Arrived(c, "refreshUser")
    /\ \E r \in Answers(c) :
           /\ ls_token' = Mid(r)[1]
           /\ ls_user' = RefreshEffect(Got(r), Mid(r)[2], user)[1]
           /\ user' = RefreshEffect(Got(r), Mid(r)[2], user)[2]
           /\ location' = Mid(r)[3]
           /\ event' = [Event("return", "refreshUser", r, Got(r), Mid(r),
                              RefreshOutcome(Got(r), user), NoCall,
                              c.caller = "handlePurchaseCredits")
                         EXCEPT !.after = JustReturned({"logout"})]
    /\ analyzing' = IF c.caller = "handleAnalyze" THEN FALSE ELSE analyzing
    /\ calls' = calls (-) SetToBag({c})
    /\ UNCHANGED <<loading, isAuthenticated, mounted, files, analysisResult, error,
                   packages>>

\* ---------------------------------------------------------------- behaviour
\* what an earlier visit may have left in localStorage: nothing, or a
\* session of one account (the accounts are interchangeable)
StoredSessions ==
    {ClearAuth} \cup {<<TokenOf(AccountOfProfile(p)), SetUser(p)>> :
                         p \in {q \in Profiles : AccountOfProfile(q) = "alice"}}

Init ==
    /\ \E stored \in StoredSessions :
          /\ ls_token = stored[1]
          /\ ls_user = stored[2]
    /\ location = "/"
    /\ user = Null
    /\ loading = TRUE
    /\ isAuthenticated = FALSE
    /\ mounted = FALSE
    /\ files = <<>>
    /\ analyzing = FALSE
    /\ analysisResult = Null
    /\ error = ""
    /\ creditPackages = <<>>
    /\ loadingPackages = FALSE
    /\ dashboardMounted = FALSE
    /\ calls = EmptyBag
    /\ event = Local("return", "none", NoOut, NoCall)

\* the authentication context and the pages that call it
AuthNext ==
    \/ InitializeAuth
    \/ \E c \in InFlight : InitializeAuthReturn(c)
    \/ Login
    \/ Register
    \/ DemoLogin
    \/ \E c \in InFlight : AuthReturn(c)
    \/ Logout
    \/ \E c \in InFlight : LogoutReturn(c)

\* the Dashboard's handlers, in a session AuthProvider has initialized
DashboardNext ==
    \/ InitializeAuth
    \/ \E c \in InFlight : InitializeAuthReturn(c)
    \/ \E fs \in FileSets : HandleFileSelect(fs)
    \/ \E fs \in FileSets : HandleDrop(fs)
    \/ HandleAnalyzeNoFiles
    \/ HandleAnalyze
    \/ \E c \in InFlight : HandleAnalyzeReturn(c)
    \/ HandleDemoAnalysis
    \/ \E c \in InFlight : HandleDemoAnalysisReturn(c)
    \/ HandlePurchaseCredits
    \/ \E c \in InFlight : HandlePurchaseCreditsReturn(c)
    \/ \E c \in InFlight : RefreshUserReturn(c)

Next ==
    \/ AuthNext
    \/ DashboardNext
    \/ LoadCreditPackages
    \/ \E c \in InFlight : LoadCreditPackagesReturn(c)
    \/ \E p \in Profiles : UpdateUser(p)

\* the whole application used one request at a time: a handler that sends
\* a request starts only when none is in flight
Idle == calls = EmptyBag
SequentialNext ==
    \/ InitializeAuth
    \/ \E c \in InFlight : InitializeAuthReturn(c)
    \/ Idle /\ Login
    \/ Idle /\ Register
    \/ Idle /\ DemoLogin
    \/ \E c \in InFlight : AuthReturn(c)
    \/ Idle /\ Logout
    \/ \E c \in InFlight : LogoutReturn(c)
    \/ \E fs \in FileSets : HandleFileSelect(fs)
    \/ \E fs \in FileSets : HandleDrop(fs)
    \/ HandleAnalyzeNoFiles
    \/ Idle /\ HandleAnalyze
    \/ \E c \in InFlight : HandleAnalyzeReturn(c)
    \/ Idle /\ HandleDemoAnalysis
    \/ \E c \in InFlight : HandleDemoAnalysisReturn(c)
    \/ Idle /\ HandlePurchaseCredits
    \/ \E c \in InFlight : HandlePurchaseCreditsReturn(c)
    \/ \E c \in InFlight : RefreshUserReturn(c)

\* the session operations in any interleaving: initializeAuth, login (register
\* and demoLogin differ from it in endpoint and fallback message), logout,
\* and refreshUser as the Dashboard calls it after a simulated purchase
SessionNext ==
    \/ InitializeAuth
    \/ \E c \in InFlight : InitializeAuthReturn(c)
    \/ Login
    \/ \E c \in InFlight : AuthReturn(c)
    \/ Logout
    \/ \E c \in InFlight : LogoutReturn(c)
    \/ HandlePurchaseCredits
    \/ \E c \in InFlight : HandlePurchaseCreditsReturn(c)
    \/ \E c \in InFlight : RefreshUserReturn(c)

\* localStorage outlives the page: the keys as any earlier page load may
\* have left them, one without the other included
StoredAtLoad ==
    {<<t, u>> : t \in {Null, TokenOf("alice")},
                u \in {Null} \cup {SetUser(p) :
                                     p \in {q \in Profiles : AccountOfProfile(q) = "alice"}}}

\* the page loads with any of them in storage
InitAtLoad ==
    /\ \E stored \in StoredAtLoad :
          /\ ls_token = stored[1]
          /\ ls_user = stored[2]
    /\ location = "/"
    /\ user = Null
    /\ loading = TRUE
    /\ isAuthenticated = FALSE
    /\ mounted = FALSE
    /\ files = <<>>
    /\ analyzing = FALSE
    /\ analysisResult = Null
    /\ error = ""
    /\ creditPackages = <<>>
    /\ loadingPackages = FALSE
    /\ dashboardMounted = FALSE
    /\ calls = EmptyBag
    /\ event = Local("return", "none", NoOut, NoCall)

\* every handler and mount effect that sends a request, one request at a time
RequestsNext ==
    \/ SequentialNext
    \/ Idle /\ LoadCreditPackages
    \/ \E c \in InFlight : LoadCreditPackagesReturn(c)

\* the session operations with the Dashboard behind the sign-in: its
\* handlers (handleLogout, handlePurchaseCredits) start in a signed-in session
SignedInNext ==
    \/ InitializeAuth
    \/ \E c \in InFlight : InitializeAuthReturn(c)
    \/ Login
    \/ \E c \in InFlight : AuthReturn(c)
    \/ isAuthenticated /\ Logout
    \/ \E c \in InFlight : LogoutReturn(c)
    \/ isAuthenticated /\ HandlePurchaseCredits
    \/ \E c \in InFlight : HandlePurchaseCreditsReturn(c)
    \/ \E c \in InFlight : RefreshUserReturn(c)

\* every request of an analysis eventually resolves or is rejected: the
\* analyze request, the demo request, and the verify request of the
\* refreshUser that handleAnalyze awaits
AnalysisRequestsSettle ==
    /\ WF_vars(\E c \in InFlight : HandleAnalyzeReturn(c))
    /\ WF_vars(\E c \in InFlight : HandleDemoAnalysisReturn(c))
    /\ WF_vars(\E c \in InFlight : c.caller = "handleAnalyze" /\ RefreshUserReturn(c))

\* a purchase, or the refresh it awaits, is in progress
PurchaseInFlight ==
    \E c \in InFlight : \/ c.op = "handlePurchaseCredits"
                        \/ (c.op = "refreshUser" /\ c.caller = "handlePurchaseCredits")

\* the analyses of the Dashboard, with a purchase made while one is running
\* (its refreshUser competes with the refresh the analysis awaits)
AnalysisNext ==
    \/ InitializeAuth
    \/ \E c \in InFlight : InitializeAuthReturn(c)
    \/ \E fs \in FileSets : HandleFileSelect(fs)
    \/ HandleAnalyze
    \/ \E c \in InFlight : HandleAnalyzeReturn(c)
    \/ HandleDemoAnalysis
    \/ \E c \in InFlight : HandleDemoAnalysisReturn(c)
    \/ analyzing /\ ~PurchaseInFlight /\ HandlePurchaseCredits
    \/ \E c \in InFlight : HandlePurchaseCreditsReturn(c)
    \/ \E c \in InFlight : RefreshUserReturn(c)

\* the analyses with their requests settling
SpecAnalysis == Init /\ [][AnalysisNext]_vars /\ AnalysisRequestsSettle

Spec == Init /\ [][Next]_vars
SpecSignedIn == Init /\ [][SignedInNext]_vars
SpecRequests == Init /\ [][RequestsNext]_vars
SpecSession == Init /\ [][SessionNext]_vars
SpecLoad == InitAtLoad /\ [][AuthNext]_vars
SpecSequential == Init /\ [][SequentialNext]_vars
SpecAuth == Init /\ [][AuthNext]_vars
SpecDashboard == Init /\ [][DashboardNext]_vars

\* ---------------------------------------------------------------- properties
AuthOps == {"login", "register", "demoLogin"}
Unauthorized(res) == res.kind = "error" /\ res.status = 401
Cleared == <<Null, Null, "/login">>

\* C1: when login, register or demoLogin returns on a response whose body
\* reports success, the token key and the profile key are both non-empty,
\* the in-memory user is the response's profile and isAuthenticated is true.
C1_SuccessfulLoginStoresSession ==
    (event.step = "return" /\ event.op \in AuthOps /\ event.res.kind = "ok"
       /\ event.res.success)
    => /\ ls_token # Null
       /\ ls_user # Null
       /\ user = event.res.user
       /\ isAuthenticated = TRUE

C1_Witness ==
    /\ event.step = "return"
    /\ event.op = "register"
    /\ event.res.kind = "ok" /\ event.res.success
    /\ ls_token = event.res.token
    /\ isAuthenticated

\* C2: when logout returns, both keys are absent, the in-memory user is null
\* and isAuthenticated is false, whatever became of the /auth/logout request.
C2_LogoutClearsSession ==
    (event.step = "return" /\ event.op = "logout")
    => /\ ls_token = Null
       /\ ls_user = Null
       /\ user = Null
       /\ isAuthenticated = FALSE

\* logout returned after a network failure that had left the token in place
C2_Witness ==
    /\ event.step = "return"
    /\ event.op = "logout"
    /\ event.res.kind = "network"
    /\ event.mid[1] # Null
    /\ ls_token = Null

\* C3: a 401 answer to any request leaves both keys removed and the location
\* at /login when the response interceptor has run, the handler that awaited
\* it restores neither key, and a 401 received with the keys already removed
\* and the location already /login changes none of the three.
C3_UnauthorizedClearsAndRedirects ==
    [][Unauthorized(event'.res)
         => /\ event'.mid = Cleared
            /\ ls_token' = Null
            /\ ls_user' = Null
            /\ (<<ls_token, ls_user, location>> = Cleared
                  => event'.mid = <<ls_token, ls_user, location>>)]_vars

C3_Witness ==
    /\ event.op = "handlePurchaseCredits"
    /\ event.res.kind = "error" /\ event.res.status = 401
    /\ event.mid = Cleared
    /\ location = "/login"

\* C4: every request leaves with an Authorization header "Bearer <token>"
\* for the token stored when it is sent, and with none when none is stored.
C4_RequestsCarryStoredToken ==
    event.sent # NoCall
    => /\ BagIn(event.sent, calls)
       /\ IF ls_token = Null
          THEN event.sent.auth = <<>>
          ELSE event.sent.auth = <<"Bearer", ls_token>>

\* the verify request of refreshUser left with the stored token
C4_Witness ==
    /\ event.step = "await"
    /\ event.sent.op = "refreshUser"
    /\ ls_token # Null
    /\ event.sent.auth = <<"Bearer", ls_token>>

\* C5: handleFileSelect and handleDrop leave the chosen files as the file
\* set, no analysis result and an empty error message.
C5_SelectionResetsResultAndError ==
    event.op \in {"handleFileSelect", "handleDrop"}
    => /\ files = event.arg
       /\ analysisResult = Null
       /\ error = ""

C5_Witness ==
    /\ event.op = "handleDrop"
    /\ event.arg = <<"a.py", "b.js">>
    /\ files = <<"a.py", "b.js">>
    /\ analysisResult = Null

\* C6: handleAnalyze called with an empty file set sends no request, sets the
\* error to 'Please select files to analyze' and changes neither analyzing,
\* the analysis result nor the session.
C6_AnalyzeWithoutFilesOnlyValidates ==
    [][(event'.op = "handleAnalyze" /\ event'.res = NoRes /\ Len(files) = 0)
         => /\ calls' = calls
            /\ event'.sent = NoCall
            /\ error' = "Please select files to analyze"
            /\ UNCHANGED <<analyzing, analysisResult, files, ls_token, ls_user,
                           location, user, loading, isAuthenticated>>]_vars

\* the validation ran while an earlier analysis was still in flight
C6_Witness ==
    /\ event.op = "handleAnalyze"
    /\ event.step = "return"
    /\ event.res = NoRes
    /\ error = "Please select files to analyze"
    /\ analyzing

\* C7: a 402 rejection of the analyze request shows the insufficient-credit
\* message; any other rejection shows the backend's message when it sent one
\* and 'Analysis failed. Please try again.' otherwise.
C7_PaymentRequiredMessage ==
    (event.op = "handleAnalyze" /\ event.step = "return"
       /\ event.res.kind \in {"error", "network"})
    => IF event.res.kind = "error" /\ event.res.status = 402
       THEN error = InsufficientCreditsMessage
       ELSE /\ error # InsufficientCreditsMessage
            /\ error = IF event.res.kind = "error" /\ event.res.error = "Backend error"
                       THEN "Backend error"
                       ELSE AnalysisFailedMessage

\* a 402 that came with a message of the backend's
C7_Witness ==
    /\ event.op = "handleAnalyze"
    /\ event.step = "return"
    /\ event.res.kind = "error" /\ event.res.status = 402
    /\ event.res.error = "Backend error"
    /\ error = InsufficientCreditsMessage

\* C8: Try Demo can be used whether or not a token is stored or a file is
\* selected (while no analysis is running), it sends the demo request, and a
\* response reporting success becomes the displayed result.
C8_DemoNeedsNoCredentialNorFiles ==
    /\ (mounted /\ ~analyzing /\ CanSend) => ENABLED HandleDemoAnalysis
    /\ (event.op = "handleDemoAnalysis" /\ event.step = "start")
         => /\ BagIn(event.sent, calls)
            /\ event.sent.op = "handleDemoAnalysis"
    /\ (event.op = "handleDemoAnalysis" /\ event.step = "return"
          /\ event.res.kind = "ok" /\ event.res.success)
         => analysisResult = event.res.data

\* a demo result displayed with no token stored and no file selected
C8_Witness ==
    /\ event.op = "handleDemoAnalysis"
    /\ event.step = "return"
    /\ event.res.kind = "ok" /\ event.res.success
    /\ ls_token = Null
    /\ files = <<>>
    /\ analysisResult = <<"analysis", <<"demo">>>>

\* C9: login, register, demoLogin, logout and refreshUser resolve for every
\* answer; login, register and demoLogin resolve to {success: true, user} on
\* a body reporting success and to {success: false, error} otherwise.
C9_SessionOperationsNeverReject ==
    (event.step = "return"
       /\ event.op \in AuthOps \cup {"logout", "refreshUser"})
    => /\ event.out.settled = "resolved"
       /\ event.op \in AuthOps
            => IF event.res.kind = "ok" /\ event.res.success
               THEN event.out.success /\ event.out.user = event.res.user
               ELSE /\ ~event.out.success
                    /\ event.out.error \in
                         {Undefined, "Backend error", "Login failed",
                          "Registration failed", "Demo login failed"}

\* demoLogin resolved to a failure after a network error
C9_Witness ==
    /\ event.step = "return"
    /\ event.op = "demoLogin"
    /\ event.res.kind = "network"
    /\ event.out.settled = "resolved"
    /\ event.out.error = "Demo login failed"

\* C10: an error status other than 401, or a failure without a response,
\* reaches the awaiting handler as the same rejection, and the response
\* interceptor changes neither localStorage key nor the location.
C10_OtherErrorsPassThrough ==
    [][(event'.res.kind \in {"error", "network"} /\ ~Unauthorized(event'.res))
         => /\ event'.got = event'.res
            /\ event'.got.kind \in {"error", "network"}
            /\ event'.mid = <<ls_token, ls_user, location>>]_vars

\* a 402 on analyze that left a stored session alone
C10_Witness ==
    /\ event.op = "handleAnalyze"
    /\ event.res.kind = "error" /\ event.res.status = 402
    /\ event.mid[1] # Null
    /\ event.mid[2] # Null
    /\ ls_token # Null

\* the step removed a stored token
TokenDeleted == ls_token # Null /\ ls_token' = Null
\* the step is initializeAuth's continuation on a verify that did not succeed
InitializeFailed(e) ==
    e.op = "initializeAuth" /\ e.res # NoRes /\ ~(e.res.kind = "ok" /\ e.res.success)

\* C11 as stated: a stored token is removed only by a step of logout or by a
\* step that received a 401.
C11_TokenDeletedOnlyByLogoutOr401 ==
    [][TokenDeleted => (event'.op = "logout" \/ Unauthorized(event'.res))]_vars

\* C11 amended: a stored token is removed only by a step of logout, by a step
\* that received a 401, or by initializeAuth when its verify request did not
\* succeed; a network failure, an error status other than 401 or a
\* non-success body on any other call leaves the token key as it was.
C11_TokenDeletedOnlyByLogout401OrInitialize ==
    [][/\ TokenDeleted => \/ event'.op = "logout"
                           \/ Unauthorized(event'.res)
                           \/ InitializeFailed(event')
       /\ (/\ event'.res # NoRes
           /\ ~(event'.res.kind = "ok" /\ event'.res.success)
           /\ ~Unauthorized(event'.res)
           /\ event'.op \notin {"logout", "initializeAuth"})
          => ls_token' = ls_token]_vars

\* initializeAuth removed the token after a network failure of its verify
C11_Witness ==
    /\ event.op = "initializeAuth"
    /\ event.res.kind = "network"
    /\ event.mid[1] # Null
    /\ ls_token = Null

\* C12: in every reachable state the token key and the profile key are both
\* present or both absent.
C12_KeysInvalidatedTogether ==
    (ls_token = Null) <=> (ls_user = Null)

AnalysisOps == {"handleAnalyze", "handleDemoAnalysis"}
\* an analyze or demo request has been sent and not yet answered
AnalysisInFlight == \E c \in InFlight : c.op \in AnalysisOps
\* the step is the continuation of handleAnalyze or handleDemoAnalysis on
\* the answer to its analysis request
AnalysisCompleted(e) == e.op \in AnalysisOps /\ e.res # NoRes

\* C13: while an analyze or demo request is in flight, and when it has
\* failed, no analysis result is displayed (any result on display then was
\* obtained from an earlier request).
C13_NewAnalysisDiscardsResult ==
    /\ AnalysisInFlight => analysisResult = Null
    /\ (AnalysisCompleted(event) /\ ~(event.res.kind = "ok" /\ event.res.success))
         => analysisResult = Null

\* what the Dashboard renders: {analysisResult && ...}, {error && ...}
ResultDisplayed == analysisResult # Null
ErrorDisplayed == error \notin {"", Undefined}

\* C14: when the answer to an analyze or demo request has been handled, the
\* analysis result is set or the error message is non-empty, and not both.
C14_ExactlyOneOfResultAndError ==
    AnalysisCompleted(event) => (ResultDisplayed # ErrorDisplayed)

\* C15: when a handler's error handling has run on a 401, the rejection it
\* received is that 401, and the storage and location it started from were
\* already the cleared ones: no token, no profile, location /login; the
\* token is not stored when it has finished.
C15_ClearedBeforeCallerSeesRejection ==
    (event.res.kind = "error" /\ event.res.status = 401)
    => /\ event.got = event.res
       /\ event.step = "return"
       /\ event.mid[1] = Null
       /\ event.mid[2] = Null
       /\ event.mid[3] = "/login"
       /\ ls_token = Null

\* login's catch block ran on a 401 and read the backend's message
C15_Witness ==
    /\ event.op = "login"
    /\ event.step = "return"
    /\ event.res.kind = "error" /\ event.res.status = 401
    /\ event.out.success = FALSE
    /\ event.out.error = "Backend error"
    /\ event.mid[1] = Null

\* C16: initializeAuth run over a cached profile sends one request, to
\* /auth/verify, and none when the answer arrives; on a body reporting
\* success the in-memory user is the returned profile and isAuthenticated is
\* true; on a non-success body or any rejection both keys are absent and
\* initializeAuth leaves isAuthenticated as it was (false, as no login has
\* set it).
C16_InitializeRevalidatesCachedProfile ==
    [][event'.op = "initializeAuth"
         => /\ (event'.res = NoRes /\ ls_user # Null)
                 => /\ event'.step = "start"
                    /\ ~mounted /\ mounted'
                    /\ event'.sent.op = "initializeAuth"
                    /\ Endpoint(event'.sent.op) = "/auth/verify"
                    /\ calls' = calls (+) SetToBag({event'.sent})
                    /\ BagCardinality(calls') = BagCardinality(calls) + 1
            /\ event'.res # NoRes
                 => /\ event'.sent = NoCall
                    /\ BagCardinality(calls') = BagCardinality(calls) - 1
                    /\ IF event'.res.kind = "ok" /\ event'.res.success
                       THEN /\ user' = event'.res.user
                            /\ isAuthenticated' = TRUE
                       ELSE /\ ls_token' = Null
                            /\ ls_user' = Null
                            /\ isAuthenticated' = isAuthenticated]_vars

\* the verify of initializeAuth failed without a response: the keys it had
\* left with are gone and the session is not authenticated
C16_Witness ==
    /\ event.op = "initializeAuth"
    /\ event.step = "return"
    /\ event.res.kind = "network"
    /\ event.mid[1] # Null /\ event.mid[2] # Null
    /\ ls_token = Null /\ ls_user = Null
    /\ ~isAuthenticated

\* C17: initializeAuth run with no cached profile sends no request, leaves
\* both keys as they were (a token key without a profile included), leaves
\* isAuthenticated false and the in-memory user null, and sets loading false.
C17_InitializeWithoutProfileIsLocal ==
    [][(event'.op = "initializeAuth" /\ event'.res = NoRes /\ ls_user = Null)
         => /\ event'.step = "return"
            /\ event'.sent = NoCall
            /\ calls' = calls
            /\ ls_token' = ls_token
            /\ ls_user' = ls_user
            /\ isAuthenticated' = FALSE
            /\ user' = Null
            /\ loading' = FALSE]_vars

\* initializeAuth returned at once over a token stored without a profile
C17_Witness ==
    /\ event.op = "initializeAuth"
    /\ event.step = "return"
    /\ event.res = NoRes
    /\ ls_token # Null
    /\ ls_user = Null
    /\ calls = EmptyBag
    /\ ~loading

\* the verify requests of refreshUser sent and not yet answered
RefreshesInFlight(b) ==
    BagCardinality([c \in {d \in BagToSet(b) : d.op = "refreshUser"} |-> b[c]])

\* C18: the step that handles an analyze or simulate-purchase answer sends
\* one verify request of refreshUser when the body reports success and none
\* otherwise; no step of handleDemoAnalysis and no other step sends one; the
\* purchase acknowledgement is shown only by the step in which that
\* refreshUser returns.
C18_RefreshOnceAfterSuccess ==
    [][/\ (event'.op \in {"handleAnalyze", "handlePurchaseCredits"} /\ event'.res # NoRes)
          => /\ ~event'.alert
             /\ IF event'.res.kind = "ok" /\ event'.res.success
                THEN /\ event'.step = "await"
                     /\ event'.sent.op = "refreshUser"
                     /\ event'.sent.caller = event'.op
                     /\ RefreshesInFlight(calls') = RefreshesInFlight(calls) + 1
                ELSE /\ event'.step = "return"
                     /\ event'.sent = NoCall
                     /\ RefreshesInFlight(calls') = RefreshesInFlight(calls)
       /\ event'.op = "handleDemoAnalysis"
          => /\ ~event'.alert
             /\ RefreshesInFlight(calls') = RefreshesInFlight(calls)
       /\ RefreshesInFlight(calls') > RefreshesInFlight(calls)
          => /\ event'.op \in {"handleAnalyze", "handlePurchaseCredits"}
             /\ event'.res.kind = "ok" /\ event'.res.success
       /\ event'.alert
          => /\ event'.op = "refreshUser"
             /\ event'.step = "return"
             /\ RefreshesInFlight(calls') = RefreshesInFlight(calls) - 1]_vars

\* the acknowledgement of a purchase, shown when its refreshUser had returned
\* with the refreshed profile
C18_Witness ==
    /\ event.op = "refreshUser"
    /\ event.step = "return"
    /\ event.alert
    /\ event.res.kind = "ok" /\ event.res.success
    /\ user = event.res.user

\* C19 as stated: the step in which refreshUser returns leaves the token key
\* and isAuthenticated unchanged; on a body reporting success the profile
\* key holds the returned profile and the in-memory user is that profile; on
\* a non-success body or a rejection the profile key and the in-memory user
\* are unchanged.
C19_RefreshReplacesProfileOnly ==
    [][event'.op = "refreshUser"
         => /\ ls_token' = ls_token
            /\ isAuthenticated' = isAuthenticated
            /\ IF event'.res.kind = "ok" /\ event'.res.success
               THEN /\ ls_user' = <<"{">> \o event'.res.user \o <<"}">>
                    /\ user' = event'.res.user
               ELSE /\ ls_user' = ls_user
                    /\ user' = user]_vars

\* C19 amended: as stated for every answer but a 401; on a 401 the response
\* interceptor has removed the token key and the profile key and refreshUser
\* restores neither, and the in-memory user and isAuthenticated are
\* unchanged.
C19_RefreshReplacesProfileOnlyBar401 ==
    [][event'.op = "refreshUser"
         => /\ isAuthenticated' = isAuthenticated
            /\ IF event'.res.kind = "ok" /\ event'.res.success
               THEN /\ ls_token' = ls_token
                    /\ ls_user' = <<"{">> \o event'.res.user \o <<"}">>
                    /\ user' = event'.res.user
               ELSE /\ user' = user
                    /\ IF event'.res.kind = "error" /\ event'.res.status = 401
                       THEN ls_token' = Null /\ ls_user' = Null
                       ELSE ls_token' = ls_token /\ ls_user' = ls_user]_vars

\* refreshUser returned on a 401: the keys are gone, the signed-in state in
\* memory is as it was
C19_Witness ==
    /\ event.op = "refreshUser"
    /\ event.step = "return"
    /\ event.res.kind = "error" /\ event.res.status = 401
    /\ ls_token = Null /\ ls_user = Null
    /\ user # Null
    /\ isAuthenticated

\* C20: of a login (register, demoLogin) and a logout in flight together,
\* the one that returns last decides the session: a login returning with a
\* success body right after the logout's return leaves the login's token and
\* profile stored, its profile in memory and isAuthenticated true; a logout
\* returning right after such a login's return leaves both keys absent, the
\* user null and isAuthenticated false.
C20_LastCompletionWins ==
    /\ (/\ event.step = "return" /\ event.op \in AuthOps
        /\ event.res.kind = "ok" /\ event.res.success
        /\ event.after = "logout")
       => /\ ls_token = event.res.token
          /\ ls_user = <<"{">> \o event.res.user \o <<"}">>
          /\ user = event.res.user
          /\ isAuthenticated
    /\ (event.step = "return" /\ event.op = "logout" /\ event.after \in AuthOps)
       => /\ ls_token = Null
          /\ ls_user = Null
          /\ user = Null
          /\ ~isAuthenticated

\* the login's answer was handled right after the logout's clear, with
\* nothing else in flight: the session is the login's
C20_Witness ==
    /\ event.step = "return"
    /\ event.op = "login"
    /\ event.res.kind = "ok" /\ event.res.success
    /\ event.after = "logout"
    /\ calls = EmptyBag
    /\ ls_token = event.res.token
    /\ isAuthenticated

\* C21: a handler sends one request, its own, when it starts; the step that
\* handles an answer takes the answered request out of flight and sends
\* nothing to the same endpoint: nothing at all after a failure, and after a
\* success only the verify request of the refreshUser that handleAnalyze
\* and handlePurchaseCredits await.
C21_NoRetries ==
    [][/\ BagCardinality(calls') <= BagCardinality(calls) + 1
       /\ event'.step = "start"
          => /\ event'.sent.op = event'.op
             /\ calls' = calls (+) SetToBag({event'.sent})
       /\ event'.res # NoRes
          => /\ \E c \in BagToSet(calls) :
                   /\ c.op = event'.op
                   /\ calls' = (calls (-) SetToBag({c}))
                                (+) (IF event'.sent = NoCall THEN EmptyBag
                                     ELSE SetToBag({event'.sent}))
             /\ event'.sent # NoCall
                => /\ Endpoint(event'.sent.op) # Endpoint(event'.op)
                   /\ event'.op \in {"handleAnalyze", "handlePurchaseCredits"}
             /\ ~(event'.res.kind = "ok" /\ event'.res.success)
                => /\ event'.sent = NoCall
                   /\ BagCardinality(calls') = BagCardinality(calls) - 1]_vars

\* loadCreditPackages gave up after a network failure: nothing is in flight
C21_Witness ==
    /\ event.op = "loadCreditPackages"
    /\ event.step = "return"
    /\ event.res.kind = "network"
    /\ event.sent = NoCall
    /\ calls = EmptyBag
    /\ ~loadingPackages
    /\ creditPackages = <<>>

\* C22: in every reachable state, isAuthenticated true implies that a token
\* is stored.
C22_AuthenticatedHasToken ==
    isAuthenticated => ls_token # Null

\* C23: in every reachable state, isAuthenticated false implies that the
\* in-memory user is null; a refreshUser that returns after logout has
\* cleared the session leaves no profile in memory or in storage.
C23_SignedOutHasNoUser ==
    /\ ~isAuthenticated => user = Null
    /\ (event.op = "refreshUser" /\ event.after = "logout")
         => (user = Null /\ ls_user = Null)

\* C24: whenever a token and a profile are both stored, the profile is of
\* the account the token was issued for.
C24_ProfileBelongsToToken ==
    (ls_token # Null /\ ls_user # Null)
    => SubSeq(ls_user, 2, Len(ls_user) - 1)[1] = ls_token[2]

\* the step handled the answer to request c
Answered(c) == CopiesIn(c, calls') = CopiesIn(c, calls) - 1
\* request c left under another credential than the one stored now (or
\* under none)
SentUnderOtherCredential(c) ==
    c.auth # (IF ls_token = Null THEN <<>> ELSE <<"Bearer", ls_token>>)

\* C25 as stated: a 401 that answers a request sent under a credential other
\* than the one now stored leaves the stored token and profile to the
\* awaiting handler as they were.
C25_Stale401KeepsNewerSession ==
    [][\A c \in BagToSet(calls) :
         (/\ Answered(c)
          /\ event'.res.kind = "error" /\ event'.res.status = 401
          /\ SentUnderOtherCredential(c))
         => /\ event'.mid[1] = ls_token
            /\ event'.mid[2] = ls_user]_vars

\* C25 amended: a 401 removes the stored token and profile whatever
\* credential its request was sent under: when it answers a request sent
\* before a later login stored a session, that session's token and profile
\* are removed all the same.
C25_Stale401RemovesNewerSession ==
    [][\A c \in BagToSet(calls) :
         (/\ Answered(c)
          /\ event'.res.kind = "error" /\ event'.res.status = 401
          /\ SentUnderOtherCredential(c))
         => /\ event'.mid[1] = Null
            /\ event'.mid[2] = Null
            /\ ls_token' = Null
            /\ ls_user' = Null]_vars

\* the verify of initializeAuth, sent when the page loaded, was answered 401
\* right after a login had stored its session: that session is gone
C25_Witness ==
    /\ event.op = "initializeAuth"
    /\ event.res.kind = "error" /\ event.res.status = 401
    /\ event.after = "login"
    /\ isAuthenticated
    /\ user # Null
    /\ ls_token = Null
    /\ ls_user = Null

\* C26: loading is true in every state in which a request of initializeAuth,
\* login, register or demoLogin is in flight.
C26_LoadingWhileInFlight ==
    (\E c \in InFlight : c.op \in {"initializeAuth", "login", "register", "demoLogin"})
    => loading

\* the analyze and demo requests in flight, and the verify requests of the
\* refreshUser that handleAnalyze awaits
AnalysesInFlight(b) ==
    BagCardinality([c \in {d \in BagToSet(b) :
                              \/ d.op \in {"handleAnalyze", "handleDemoAnalysis"}
                              \/ (d.op = "refreshUser" /\ d.caller = "handleAnalyze")}
                      |-> b[c]])

\* C27: at most one analysis (its request, or the refresh it awaits) is in
\* progress; while one is, analyzing is true; while analyzing is true the
\* Analyze and Try Demo buttons start nothing.
C27_OneAnalysisAtATime ==
    /\ AnalysesInFlight(calls) <= 1
    /\ AnalysesInFlight(calls) = 1 => analyzing
    /\ analyzing => (~ENABLED HandleAnalyze /\ ~ENABLED HandleDemoAnalysis)

\* files are selected and another request could be sent, and the buttons
\* are held by the refresh that a successful analysis awaits
C27_Witness ==
    /\ analyzing
    /\ \E c \in InFlight : c.op = "refreshUser" /\ c.caller = "handleAnalyze"
    /\ analysisResult # Null
    /\ Len(files) > 0
    /\ CanSend

\* C28: a displayed result of an analysis of the user's own files is the
\* result for the files currently selected.
C28_ResultBelongsToSelectedFiles ==
    (analysisResult # Null /\ analysisResult # <<"analysis", <<"demo">>>>)
    => analysisResult = <<"analysis", files>>

\* C29: every started analysis is followed by a state where analyzing is
\* false, whatever the outcome of its request and of the refresh it awaits.
C29_AnalyzingEventuallyFalse == analyzing ~> ~analyzing

\* an analysis that succeeded and whose profile refresh then failed without
\* a response has returned the dashboard to analyzing = false
C29_Witness ==
    /\ ~analyzing
    /\ event.step = "return"
    /\ event.op = "refreshUser"
    /\ ~event.alert
    /\ event.res.kind = "network"
    /\ analysisResult # Null

\* C30: when isAuthenticated is true and no request is in flight, the
\* in-memory user is the profile persisted in local storage.
C30_UserEqualsStoredProfile ==
    (isAuthenticated /\ calls = EmptyBag) => user = GetUser(ls_user)

====
